---- MODULE Spec2Model ----
(***************************************************************************)
(* A model of eif_parse.c: the EIF header decoder (parse_eif_header), the  *)
(* section header decoder (parse_eif_section_header) and the section walk  *)
(* of parse_eif_file over a regular file.                                  *)
(*                                                                         *)
(* 64-bit quantities (uint64_t, size_t, off_t) are kept at full width as   *)
(* four 16-bit limbs, most significant first; 32-bit ones as two limbs.    *)
(*                                                                         *)
(* The byte source is a regular file on an LP64 system: read returns the   *)
(* bytes up to end-of-file, lseek accepts every non-negative offset and    *)
(* returns -1 for a negative one. Assertions are compiled in (the source   *)
(* does not define NDEBUG). The variable ops logs every read and lseek on  *)
(* the descriptor, descs and warnings what is printed per section.         *)
(***************************************************************************)
EXTENDS Integers, Sequences, FiniteSets, TLC

VARIABLES file, fpos, pc, buf, got, header, i, shdr, metadata,
          descs, warnings, err, ops, oob

vars == <<file, fpos, pc, buf, got, header, i, shdr, metadata,
          descs, warnings, err, ops, oob>>

\* ---------------------------------------------------------------- constants
EIF_HEADER_SIZE == 548
EIF_SECTION_HEADER_SIZE == 12
MAX_SECTIONS == 32
METADATA_TYPE == 5

\* ------------------------------------------------------------------- bounds
\* Largest in-range section count of the generated headers (33 is added).
MaxCount == 2

\* --------------------------------------------------------- fixed-width ints
Limb == 256 * 256
\* An uninitialised byte of a malloc'ed buffer.
UNINIT == -1
\* A null pointer, and an object not yet assigned.
NULL == [null |-> TRUE]
Undef == [undef |-> TRUE]

U64Zero == <<0, 0, 0, 0>>
U64Max == <<65535, 65535, 65535, 65535>>
U64Of(n) == <<0, 0, n \div Limb, n % Limb>>
\* The values below 2^31, which are the ones a file position inside the
\* modelled files can take.
IsSmall(u) == u[1] = 0 /\ u[2] = 0 /\ u[3] < 32768
ToNat(u) == u[3] * Limb + u[4]

\* x + 1 in uint64_t / size_t arithmetic (wraps modulo 2^64).
U64Add1(u) ==
    IF u[4] < Limb - 1 THEN <<u[1], u[2], u[3], u[4] + 1>>
    ELSE IF u[3] < Limb - 1 THEN <<u[1], u[2], u[3] + 1, 0>>
    ELSE IF u[2] < Limb - 1 THEN <<u[1], u[2] + 1, 0, 0>>
    ELSE IF u[1] < Limb - 1 THEN <<u[1] + 1, 0, 0, 0>>
    ELSE U64Zero

\* x - 1 in size_t arithmetic (wraps modulo 2^64).
U64Sub1(u) ==
    IF u[4] > 0 THEN <<u[1], u[2], u[3], u[4] - 1>>
    ELSE IF u[3] > 0 THEN <<u[1], u[2], u[3] - 1, Limb - 1>>
    ELSE IF u[2] > 0 THEN <<u[1], u[2] - 1, Limb - 1, Limb - 1>>
    ELSE IF u[1] > 0 THEN <<u[1] - 1, Limb - 1, Limb - 1, Limb - 1>>
    ELSE U64Max

\* (off_t) x < 0 and (ssize_t) x < 0: the sign bit of the 64-bit value.
IsNegative64(u) == u[1] >= 32768

\* ------------------------------------------------------ big-endian decoding
\* buf[0] is b[1]: a window is a 1-based sequence of bytes.
BIG_ENDIAN_U16(b) == b[1] * 256 + b[2]

BIG_ENDIAN_U32(b) == <<b[1] * 256 + b[2], b[3] * 256 + b[4]>>

\* A decoder that takes the least significant byte first.
LITTLE_ENDIAN_U64(b) ==
    <<b[8] * 256 + b[7], b[6] * 256 + b[5],
      b[4] * 256 + b[3], b[2] * 256 + b[1]>>

BIG_ENDIAN_U64(b) ==
    <<b[1] * 256 + b[2], b[3] * 256 + b[4],
      b[5] * 256 + b[6], b[7] * 256 + b[8]>>

\* The window of buf that starts at C pointer buf + p.
At(b, p, n) == [k \in 1 .. n |-> b[p + k]]

\* The loop "for (i = 0; i < MAX_SECTIONS; ++i) { a[i] = U64(buf); buf += 8; }"
\* started with the cursor at p.
RECURSIVE ParseU64Array(_, _, _)
ParseU64Array(b, p, n) ==
    IF n = 0 THEN <<>>
    ELSE <<BIG_ENDIAN_U64(At(b, p, 8))>> \o ParseU64Array(b, p + 8, n - 1)

\* parse_eif_header: every field read at the cursor, the cursor advanced by
\* the field's width.
parse_eif_header(b) ==
    LET p0 == 0
        p1 == p0 + 4
        p2 == p1 + 2
        p3 == p2 + 2
        p4 == p3 + 8
        p5 == p4 + 8
        p6 == p5 + 2
        p7 == p6 + 2
        p8 == p7 + 8 * MAX_SECTIONS
        p9 == p8 + 8 * MAX_SECTIONS
        p10 == p9 + 4
    IN  [magic |-> <<b[1], b[2], b[3], b[4]>>,
         version |-> BIG_ENDIAN_U16(At(b, p1, 2)),
         flags |-> BIG_ENDIAN_U16(At(b, p2, 2)),
         default_memory |-> BIG_ENDIAN_U64(At(b, p3, 8)),
         default_cpus |-> BIG_ENDIAN_U64(At(b, p4, 8)),
         reserved |-> BIG_ENDIAN_U16(At(b, p5, 2)),
         section_cnt |-> BIG_ENDIAN_U16(At(b, p6, 2)),
         section_offsets |-> ParseU64Array(b, p7, MAX_SECTIONS),
         section_sizes |-> ParseU64Array(b, p8, MAX_SECTIONS),
         unused |-> BIG_ENDIAN_U32(At(b, p9, 4)),
         eif_crc32 |-> BIG_ENDIAN_U32(At(b, p10, 4))]

parse_eif_section_header(b) ==
    [section_type |-> BIG_ENDIAN_U16(At(b, 0, 2)),
     flags |-> BIG_ENDIAN_U16(At(b, 2, 2)),
     section_size |-> BIG_ENDIAN_U64(At(b, 4, 8))]

\* --------------------------------------------------------- the byte source
\* read(fd, dst, count) on a regular file at position pos: the bytes from pos
\* up to end-of-file, at most count of them; 0 at or past end-of-file.
Avail(f, pos) ==
    IF IsSmall(pos) /\ ToNat(pos) < Len(f) THEN Len(f) - ToNat(pos) ELSE 0

ReadGot(f, pos, count) ==
    IF IsSmall(count) /\ ToNat(count) < Avail(f, pos)
    THEN ToNat(count) ELSE Avail(f, pos)

ReadData(f, pos, count) ==
    IF ReadGot(f, pos, count) = 0 THEN <<>>
    ELSE SubSeq(f, ToNat(pos) + 1, ToNat(pos) + ReadGot(f, pos, count))

PosAfter(pos, n) == IF n = 0 THEN pos ELSE U64Of(ToNat(pos) + n)

\* lseek(fd, (off_t) off, SEEK_SET): -1 (EINVAL) for a negative off_t, else
\* the offset itself, also past end-of-file. The result converted back to
\* uint64_t as the comparison of the caller does.
lseek(off) == IF IsNegative64(off) THEN U64Max ELSE off

\* The file position lseek leaves: unchanged when it fails.
SeekPos(pos, off) == IF IsNegative64(off) THEN pos ELSE off

\* dst[0 .. n-1] overwritten by data, the rest of dst kept.
Overwrite(dst, data) ==
    [k \in 1 .. Len(dst) |-> IF k <= Len(data) THEN data[k] ELSE dst[k]]

\* ------------------------------------------------------------- input files
\* Inputs are files laid out as the EifHeader and EifSectionHeader comments
\* give the on-disk field order: a 548-byte header, then section blobs.
U16Bytes(v) == <<v \div 256, v % 256>>
U64Bytes(u) ==
    U16Bytes(u[1]) \o U16Bytes(u[2]) \o U16Bytes(u[3]) \o U16Bytes(u[4])

Fills == {0, 1}
\* Byte k (0-based) of the header fields that the walk does not use.
FillByte(f, k) == (k * (2 * f + 3) + 7 * f + 1) % 256
MagicEif == <<46, 101, 105, 102>>

\* The header bytes for count cnt and the entries es = <<[off, size], ...>>;
\* entries past Len(es) keep the fill bytes.
HeaderBytes(f, cnt, es) ==
    [k \in 1 .. EIF_HEADER_SIZE |->
        LET p == k - 1
            e == (p - 28) \div 8
            s == (p - 284) \div 8
        IN  IF p < 4 /\ f = 0 THEN MagicEif[k]
            ELSE IF p \in {26, 27} THEN U16Bytes(cnt)[p - 25]
            ELSE IF p >= 28 /\ p < 284 /\ e < Len(es)
                 THEN U64Bytes(es[e + 1].off)[p - 28 - 8 * e + 1]
            ELSE IF p >= 284 /\ p < 540 /\ s < Len(es)
                 THEN U64Bytes(es[s + 1].size)[p - 284 - 8 * s + 1]
            ELSE FillByte(f, p)]

Payload(n) == [k \in 1 .. n |-> 96 + k]
Blob(type, size, paylen) ==
    U16Bytes(type) \o U16Bytes(0) \o U64Bytes(size) \o Payload(paylen)

MetaTwo == Blob(METADATA_TYPE, U64Of(2), 2)
MetaOne == Blob(METADATA_TYPE, U64Of(1), 1)
MetaWrap == Blob(METADATA_TYPE, U64Max, 0)
Kernel == Blob(1, U64Of(3), 3)
Cut == SubSeq(Kernel, 1, EIF_SECTION_HEADER_SIZE - 1)

\* The section areas tried, each a sequence of blobs.
Bodies ==
    { <<>>,
      <<MetaTwo>>,
      <<MetaTwo, MetaOne>>,
      <<Kernel, MetaTwo, Kernel>>,
      <<MetaWrap, Kernel>>,
      <<Kernel, Cut>> }

RECURSIVE Flatten(_)
Flatten(bs) == IF bs = <<>> THEN <<>> ELSE Head(bs) \o Flatten(Tail(bs))

RECURSIVE BlobStart(_, _)
BlobStart(bs, j) ==
    IF j = 1 THEN EIF_HEADER_SIZE ELSE BlobStart(bs, j - 1) + Len(bs[j - 1])

\* The (offset, header size) pairs a header entry is drawn from: every blob
\* start with a size of 2 or 3, and the offsets 2^64-1, 2^63, 0 and one past
\* end-of-file.
Entries(bs) ==
    LET end == EIF_HEADER_SIZE + Len(Flatten(bs))
    IN  { [off |-> U64Of(BlobStart(bs, j)), size |-> U64Of(z)] :
              j \in 1 .. Len(bs), z \in {2, 3} }
        \cup { [off |-> U64Max, size |-> U64Of(2)],
               [off |-> <<32768, 0, 0, 0>>, size |-> U64Of(2)],
               [off |-> U64Of(0), size |-> U64Of(2)],
               [off |-> U64Of(end + 3), size |-> U64Of(2)] }

Counts == 0 .. MaxCount

\* The fill of the header in front of a body: the bodies with an odd number
\* of blobs get the header whose magic is not ".eif".
FillOf(bs) == Len(bs) % 2

\* Every body under every header of Counts entries, one header that declares
\* MAX_SECTIONS + 1 sections, and two files too short to hold a header.
Files ==
    UNION { UNION { { HeaderBytes(FillOf(bs), n, es) \o Flatten(bs) :
                          es \in [1 .. n -> Entries(bs)] } :
                    n \in Counts } : bs \in Bodies }
    \cup
    { HeaderBytes(f, MAX_SECTIONS + 1, <<e>>) \o Flatten(<<MetaTwo, MetaOne>>) :
          f \in Fills, e \in Entries(<<MetaTwo, MetaOne>>) }
    \cup
    { SubSeq(HeaderBytes(0, 1, <<>>), 1, n) : n \in {0, EIF_HEADER_SIZE - 1} }

\* ------------------------------------------------------------ parse_eif_file
Terminal == {"done", "exit", "abort", "crash"}

\* a[k] of a uint64_t[MAX_SECTIONS] member; past the array the struct's next
\* members follow (section_sizes after section_offsets).
OffsetAt(h, k) ==
    IF k < MAX_SECTIONS THEN h.section_offsets[k + 1]
    ELSE h.section_sizes[((k - MAX_SECTIONS) % MAX_SECTIONS) + 1]

SizeAt(h, k) == h.section_sizes[(k % MAX_SECTIONS) + 1]

\* assert(buf_len >= EIF_HEADER_SIZE), assert(buf_len >= EIF_SECTION_HEADER_SIZE)
LenOk(buf_len, need) == buf_len >= need

\* exit(1) after an error message: the statement after it is never reached.
Exit(fallthrough) == "exit"

\* The walk with the assertion on section_cnt left out.
CntUnchecked(h) == TRUE

\* assert(eif_header.section_cnt <= MAX_SECTIONS)
CntOk(h) == h.section_cnt <= MAX_SECTIONS

\* A loop that runs one index too far.
LoopCondInclusive(k, h) == k <= h.section_cnt

\* i < eif_header.section_cnt
LoopCond(k, h) == k < h.section_cnt

\* (uint64_t) offset != section_offset is the failure test
SeekOk(offset, section_offset) == offset = section_offset

\* got != EIF_HEADER_SIZE, got != EIF_SECTION_HEADER_SIZE
ShortRead(g, n) == g # n

\* got != (ssize_t) size
ShortMeta(g, size) == ~(~IsNegative64(size) /\ IsSmall(size) /\ ToNat(size) = g)

\* A comparison against the next section's header entry.
SizeMismatchNextEntry(h, k, sh) == SizeAt(h, k + 1) # sh.section_size

\* eif_header.section_sizes[i] != eif_section_header.section_size
SizeMismatch(h, k, sh) == SizeAt(h, k) # sh.section_size

\* A capture that does not test whether a payload is already held.
CaptureEveryMetadata(md, sh) == sh.section_type = METADATA_TYPE

\* metadata == NULL && eif_section_header.section_type == 5
CaptureCond(md, sh) == md = NULL /\ sh.section_type = METADATA_TYPE

\* size_t size = eif_section_header.section_size + 1
MetaSize(sh) == U64Add1(sh.section_size)

\* The index metadata[size - 1] lies in the size-byte buffer.
SentinelInBounds(size) == size # U64Zero

Uninit(n) == [k \in 1 .. n |-> UNINIT]

ReadOp(what, sec, at, n, g) ==
    [op |-> "read", what |-> what, sec |-> sec, at |-> at, n |-> n, got |-> g]
SeekOp(sec, at, n) ==
    [op |-> "seek", what |-> "seek", sec |-> sec, at |-> at, n |-> n, got |-> 0]

Init ==
    /\ file \in Files
    /\ fpos = U64Zero
    /\ pc = "open"
    /\ buf = <<>>
    /\ got = 0
    /\ header = Undef
    /\ i = 0
    /\ shdr = Undef
    /\ metadata = NULL
    /\ descs = <<>>
    /\ warnings = <<>>
    /\ err = "none"
    /\ ops = <<>>
    /\ oob = FALSE

\* fd = open(eif_path, O_RDONLY), which the environment may refuse.
Open ==
    /\ pc = "open"
    /\ \/ pc' = "malloc_buf" /\ err' = err
       \/ pc' = Exit("malloc_buf") /\ err' = "Failed to open file"
    /\ UNCHANGED <<file, fpos, buf, got, header, i, shdr, metadata,
                   descs, warnings, ops, oob>>

\* buf = malloc(EIF_HEADER_SIZE)
MallocBuf ==
    /\ pc = "malloc_buf"
    /\ \/ pc' = "read_header" /\ buf' = Uninit(EIF_HEADER_SIZE) /\ err' = err
       \/ pc' = Exit("read_header") /\ buf' = buf /\ err' = "Failed to allocate memory"
    /\ UNCHANGED <<file, fpos, got, header, i, shdr, metadata,
                   descs, warnings, ops, oob>>

\* got = read(fd, buf, EIF_HEADER_SIZE) and its check
ReadHeader ==
    /\ pc = "read_header"
    /\ LET n == U64Of(EIF_HEADER_SIZE)
           g == ReadGot(file, fpos, n)
       IN  /\ got' = g
           /\ buf' = Overwrite(buf, ReadData(file, fpos, n))
           /\ fpos' = PosAfter(fpos, g)
           /\ ops' = Append(ops, ReadOp("hdr", -1, fpos, n, g))
           /\ IF ShortRead(g, EIF_HEADER_SIZE)
              THEN pc' = Exit("parse_header") /\ err' = "Failed to read eif header"
              ELSE pc' = "parse_header" /\ err' = err
    /\ UNCHANGED <<file, header, i, shdr, metadata, descs, warnings, oob>>

\* parse_eif_header(buf, EIF_HEADER_SIZE, &eif_header) with its assert on
\* buf_len, print_eif_header, and the assert on section_cnt.
ParseHeader ==
    /\ pc = "parse_header"
    /\ IF ~LenOk(EIF_HEADER_SIZE, EIF_HEADER_SIZE)
       THEN pc' = "abort" /\ err' = "assert buf_len" /\ header' = header
       ELSE /\ header' = parse_eif_header(buf)
            /\ IF CntOk(header')
               THEN pc' = "loop" /\ err' = err
               ELSE pc' = "abort" /\ err' = "assert section_cnt"
    /\ i' = 0
    /\ UNCHANGED <<file, fpos, buf, got, shdr, metadata, descs, warnings,
                   ops, oob>>

\* The loop test, and what follows the loop.
Loop ==
    /\ pc = "loop"
    /\ pc' = IF LoopCond(i, header) THEN "seek" ELSE "done"
    /\ UNCHANGED <<file, fpos, buf, got, header, i, shdr, metadata,
                   descs, warnings, err, ops, oob>>

\* offset = lseek(fd, section_offset, SEEK_SET) and its check
Seek ==
    /\ pc = "seek"
    /\ LET section_offset == OffsetAt(header, i)
           offset == lseek(section_offset)
       IN  /\ fpos' = SeekPos(fpos, section_offset)
           /\ ops' = Append(ops, SeekOp(i, fpos', section_offset))
           /\ IF SeekOk(offset, section_offset)
              THEN pc' = "read_section_header" /\ err' = err
              ELSE pc' = Exit("read_section_header") /\ err' = "Failed to offset"
    /\ UNCHANGED <<file, buf, got, header, i, shdr, metadata,
                   descs, warnings, oob>>

\* got = read(fd, buf, EIF_SECTION_HEADER_SIZE) and its check
ReadSectionHeader ==
    /\ pc = "read_section_header"
    /\ LET n == U64Of(EIF_SECTION_HEADER_SIZE)
           g == ReadGot(file, fpos, n)
       IN  /\ got' = g
           /\ buf' = Overwrite(buf, ReadData(file, fpos, n))
           /\ fpos' = PosAfter(fpos, g)
           /\ ops' = Append(ops, ReadOp("shdr", i, fpos, n, g))
           /\ IF ShortRead(g, EIF_SECTION_HEADER_SIZE)
              THEN pc' = Exit("parse_section_header")
                   /\ err' = "Failed to read section header"
              ELSE pc' = "parse_section_header" /\ err' = err
    /\ UNCHANGED <<file, header, i, shdr, metadata, descs, warnings, oob>>

\* parse_eif_section_header, print_eif_section_header, the size comparison
\* with its warning, and the test that starts the metadata capture.
ParseSectionHeader ==
    /\ pc = "parse_section_header"
    /\ IF ~LenOk(EIF_SECTION_HEADER_SIZE, EIF_SECTION_HEADER_SIZE)
       THEN /\ pc' = "abort" /\ err' = "assert buf_len"
            /\ UNCHANGED <<shdr, descs, warnings, i>>
       ELSE /\ shdr' = parse_eif_section_header(buf)
            /\ descs' = Append(descs, shdr')
            /\ warnings' =
                 IF SizeMismatch(header, i, shdr')
                 THEN Append(warnings, [sec |-> i, header |-> SizeAt(header, i),
                                        section |-> shdr'.section_size])
                 ELSE warnings
            /\ err' = err
            /\ IF CaptureCond(metadata, shdr')
               THEN pc' = "malloc_metadata" /\ i' = i
               ELSE pc' = "loop" /\ i' = i + 1
    /\ UNCHANGED <<file, fpos, buf, got, header, metadata, ops, oob>>

\* metadata = malloc(size): NULL or a buffer of size bytes; a request above
\* PTRDIFF_MAX fails, and malloc(0) may give either.
MallocMetadata ==
    /\ pc = "malloc_metadata"
    /\ LET size == MetaSize(shdr)
       IN  \/ /\ ~IsNegative64(size)
              /\ metadata' = [size |-> size, data |-> <<>>, sentinel |-> FALSE]
              /\ pc' = "read_metadata" /\ err' = err
           \/ /\ metadata' = metadata
              /\ pc' = Exit("read_metadata")
              /\ err' = "Failed to allocate memory for metadata"
    /\ UNCHANGED <<file, fpos, buf, got, header, i, shdr, descs, warnings,
                   ops, oob>>

\* got = read(fd, metadata, size) and its check
ReadMetadata ==
    /\ pc = "read_metadata"
    /\ LET size == metadata.size
           g == ReadGot(file, fpos, size)
       IN  /\ got' = g
           /\ metadata' = [metadata EXCEPT !.data = ReadData(file, fpos, size)]
           /\ fpos' = PosAfter(fpos, g)
           /\ ops' = Append(ops, ReadOp("meta", i, fpos, size, g))
           /\ IF ShortMeta(g, size)
              THEN pc' = Exit("sentinel") /\ err' = "Failed to read metadata"
              ELSE pc' = "sentinel" /\ err' = err
    /\ UNCHANGED <<file, buf, header, i, shdr, descs, warnings, oob>>

\* metadata[size - 1] = '\0' inside the buffer
SentinelInside ==
    /\ pc = "sentinel"
    /\ SentinelInBounds(metadata.size)
    /\ metadata' = [metadata EXCEPT
                      !.data = [@ EXCEPT ![ToNat(U64Sub1(metadata.size)) + 1] = 0],
                      !.sentinel = TRUE]
    /\ pc' = "loop" /\ i' = i + 1
    /\ UNCHANGED <<file, fpos, buf, got, header, shdr, descs, warnings,
                   err, ops, oob>>

\* metadata[size - 1] = '\0' with size = 0: a store one byte before a
\* zero-byte allocation. The behaviour is undefined: the store goes unnoticed
\* or the process dies.
SentinelOutside ==
    /\ pc = "sentinel"
    /\ ~SentinelInBounds(metadata.size)
    /\ oob' = TRUE
    /\ metadata' = [metadata EXCEPT !.sentinel = TRUE]
    /\ \/ pc' = "loop" /\ i' = i + 1
       \/ pc' = "crash" /\ i' = i
    /\ UNCHANGED <<file, fpos, buf, got, header, shdr, descs, warnings,
                   err, ops>>

Next ==
    \/ Open
    \/ MallocBuf
    \/ ReadHeader
    \/ ParseHeader
    \/ Loop
    \/ Seek
    \/ ReadSectionHeader
    \/ ParseSectionHeader
    \/ MallocMetadata
    \/ ReadMetadata
    \/ SentinelInside
    \/ SentinelOutside

Spec == Init /\ [][Next]_vars

\* The process is scheduled until it ends: every step that can be taken is.
FairSpec == Spec /\ WF_vars(Next)

\* ------------------------------------------------------ reading the ops log
MetaReads == {k \in DOMAIN ops : ops[k].what = "meta"}
SectionHeaderReads == {k \in DOMAIN ops : ops[k].what = "shdr"}
Seeks == {k \in DOMAIN ops : ops[k].op = "seek"}
Decoded == header # Undef

\* The sections whose decoded header is of metadata type, by index.
MetaSections == {s \in 0 .. Len(descs) - 1 : descs[s + 1].section_type = METADATA_TYPE}
FirstMeta == CHOOSE s \in MetaSections : \A t \in MetaSections : s <= t

\* The position right after the section header of section s, where its
\* payload starts in the byte source.
PayloadPos(s) ==
    LET k == CHOOSE r \in SectionHeaderReads : ops[r].sec = s
    IN  ToNat(ops[k].at) + EIF_SECTION_HEADER_SIZE

FileBytes(from, n) ==
    IF n = 0 THEN <<>> ELSE SubSeq(file, from + 1, from + n)

\* ---------------------------------------------------------------- claims

\* C1: a metadata section whose header was read at its offset O and declares
\* section_size = S, with at least S payload bytes in the source after the
\* header (possibly ending at end-of-file), is captured: exactly S bytes are
\* requested from the source, the read does not fail, and the retained
\* payload is those S bytes followed by the sentinel.
C1_MetadataReadsExactlySize ==
    \A k \in MetaReads :
        LET s == ops[k].sec
            S == descs[s + 1].section_size
            O == OffsetAt(header, s)
        IN  ( /\ IsSmall(O) /\ PayloadPos(s) = ToNat(O) + EIF_SECTION_HEADER_SIZE
              /\ IsSmall(S)
              /\ Len(file) >= PayloadPos(s) + ToNat(S) )
            => /\ ops[k].n = S
               /\ err # "Failed to read metadata"
               /\ metadata.sentinel
                    => metadata.data = FileBytes(PayloadPos(s), ToNat(S)) \o <<0>>

\* C2: at most one metadata payload is captured, it comes from the first
\* metadata-typed section, its content stays that section's payload bytes to
\* the end of the walk, and every section whose header was read in full,
\* later metadata-typed ones included, is decoded and reported.
C2_FirstMetadataWins ==
    /\ Cardinality(MetaReads) <= 1
    /\ \A k \in MetaReads : MetaSections # {} /\ ops[k].sec = FirstMeta
    /\ metadata # NULL => MetaSections # {}
    /\ (metadata # NULL /\ metadata.sentinel /\ metadata.size # U64Zero)
         => /\ Len(metadata.data) = ToNat(metadata.size)
            /\ SubSeq(metadata.data, 1, ToNat(metadata.size) - 1)
                 = FileBytes(PayloadPos(FirstMeta), ToNat(metadata.size) - 1)
            /\ metadata.data[ToNat(metadata.size)] = 0
    /\ pc # "parse_section_header"
         => Len(descs) = Cardinality({k \in SectionHeaderReads :
                                         ops[k].got = EIF_SECTION_HEADER_SIZE})

C2_Witness ==
    /\ pc = "done"
    /\ Cardinality(MetaSections) = 2
    /\ metadata # NULL /\ metadata.sentinel
    /\ metadata.data = <<97, 98, 0>>

\* C3: a decoded section_count above 32 stops the walk at the assertion,
\* with no seek, no section read and no section descriptor.
C3_TooManySections ==
    (Decoded /\ header.section_cnt > MAX_SECTIONS)
        => /\ pc = "abort"
           /\ err = "assert section_cnt"
           /\ Seeks = {} /\ SectionHeaderReads = {} /\ MetaReads = {}
           /\ Len(ops) = 1
           /\ descs = <<>>

C3_Witness ==
    Decoded /\ header.section_cnt = MAX_SECTIONS + 1 /\ pc = "abort"

\* C4: every section header is read with the byte source positioned at
\* section_offsets[i], and a seek that fails or lands elsewhere ends the walk
\* with the seek error, with no read after it.
C4_HeaderReadAtOffset ==
    /\ \A k \in SectionHeaderReads : ops[k].at = OffsetAt(header, ops[k].sec)
    /\ \A k \in Seeks :
          ops[k].at # ops[k].n => (err = "Failed to offset" /\ k = Len(ops))

\* C5: a warning carrying (header size, on-disk size) is emitted exactly for
\* the visited sections whose two sizes differ; the section goes on being
\* processed, its metadata read sized from the on-disk section_size, and a
\* walk that ends normally has visited every section.
RECURSIVE ExpectedWarnings(_)
ExpectedWarnings(n) ==
    IF n = 0 THEN <<>>
    ELSE IF SizeAt(header, n - 1) # descs[n].section_size
         THEN Append(ExpectedWarnings(n - 1),
                     [sec |-> n - 1, header |-> SizeAt(header, n - 1),
                      section |-> descs[n].section_size])
         ELSE ExpectedWarnings(n - 1)

C5_MismatchWarnsAndContinues ==
    /\ Decoded => warnings = ExpectedWarnings(Len(descs))
    /\ \A k \in MetaReads :
          ops[k].n = U64Add1(descs[ops[k].sec + 1].section_size)
    /\ \A w \in DOMAIN warnings :
          LET s == warnings[w].sec
          IN  \/ s < i
              \/ /\ s = i
                 /\ descs[s + 1].section_type = METADATA_TYPE
                 /\ pc \in {"malloc_metadata", "read_metadata", "sentinel",
                            "exit", "crash"}
                 /\ pc = "exit" => err \in {"Failed to allocate memory for metadata",
                                            "Failed to read metadata"}
    /\ pc = "done" => Len(descs) = header.section_cnt

C5_Witness ==
    /\ pc = "done"
    /\ Len(descs) = 2
    /\ Len(warnings) >= 1 /\ warnings[1].sec = 0
    /\ warnings[1].header = U64Of(3) /\ warnings[1].section = U64Of(2)
    /\ descs[1].section_type = METADATA_TYPE
    /\ metadata # NULL /\ metadata.sentinel /\ Len(metadata.data) = 3

\* The fatal conditions, as they show in the log of source operations: entry
\* k is a file-header read of fewer than 548 bytes, a seek that did not land
\* at the requested offset, a section-header read of fewer than 12 bytes, or
\* a metadata read that got fewer bytes than the declared section_size.
FatalAt(k) ==
    \/ ops[k].what = "hdr" /\ ops[k].got < EIF_HEADER_SIZE
    \/ ops[k].what = "seek" /\ ops[k].at # ops[k].n
    \/ ops[k].what = "shdr" /\ ops[k].got < EIF_SECTION_HEADER_SIZE
    \/ /\ ops[k].what = "meta"
       /\ LET S == descs[ops[k].sec + 1].section_size
          IN  ~(IsSmall(S) /\ ops[k].got >= ToNat(S))

\* C6: after a fatal condition (short header read, section_count > 32,
\* failed seek, short section-header read, short metadata read) there is no
\* further seek or read, no further section is visited, and the parse has
\* ended.
C6_NothingAfterFatalCondition ==
    /\ \A k \in DOMAIN ops :
          FatalAt(k) => /\ k = Len(ops)
                        /\ pc \in Terminal
                        /\ Len(descs) <= ops[k].sec + 1
    /\ (Decoded /\ header.section_cnt > MAX_SECTIONS)
          => Len(ops) = 1 /\ pc \in Terminal

\* The part of C6 that rests on exit(1) and abort alone: once a failure has
\* been reported no step changes the log, the position, the index or the
\* outputs.
NothingAfterReportedFailure ==
    [][err # "none" => UNCHANGED <<ops, fpos, i, descs, pc, metadata>>]_vars

ReportedFailureReached ==
    /\ pc = "exit"
    /\ err = "Failed to read section header"
    /\ i = 1
    /\ Len(ops) = 5

\* C7: the walk visits the sections 0 .. section_count-1 in increasing order,
\* each once and each finished before the next starts, seeking only to the
\* header entries below section_count; with section_count = 0 it touches the
\* source no more and retains nothing; and it always comes to an end.
SectionOrder ==
    /\ \A k \in DOMAIN ops :
          k > 1 => /\ ops[k].sec \in 0 .. header.section_cnt - 1
                   /\ ops[k].sec < MAX_SECTIONS
                   /\ ops[k].sec >= ops[k - 1].sec
    /\ \A k \in Seeks : /\ ops[k].n = header.section_offsets[ops[k].sec + 1]
                        /\ ops[k].sec = Cardinality({r \in Seeks : r < k})
    /\ \A k \in SectionHeaderReads : ops[k - 1].op = "seek" /\ ops[k - 1].sec = ops[k].sec
    /\ \A k \in MetaReads : ops[k - 1].what = "shdr" /\ ops[k - 1].sec = ops[k].sec
    /\ pc = "done" => /\ Cardinality(Seeks) = header.section_cnt
                      /\ Len(descs) = header.section_cnt
                      /\ i = header.section_cnt
    /\ (pc = "done" /\ header.section_cnt = 0)
          => Len(ops) = 1 /\ descs = <<>> /\ metadata = NULL

C7_OrderedWalkTerminates ==
    [](Decoded => SectionOrder) /\ <>(pc \in Terminal)

C7_Witness ==
    /\ pc = "done"
    /\ header.section_cnt = 2
    /\ IsSmall(header.section_offsets[1]) /\ IsSmall(header.section_offsets[2])
    /\ ToNat(header.section_offsets[1]) > ToNat(header.section_offsets[2])

C7_WitnessEmpty ==
    pc = "done" /\ header.section_cnt = 0 /\ Len(file) > EIF_HEADER_SIZE

\* C8: the file header is decoded only after a read of 548 bytes and a
\* section header only after a read of 12 bytes; with fewer than 12 bytes in
\* the source at a section's offset that section's header is never decoded.
C8_DecodeOnlyFullLength ==
    /\ Decoded => ops[1].got = EIF_HEADER_SIZE
    /\ Len(file) < EIF_HEADER_SIZE => ~Decoded
    /\ \A k \in SectionHeaderReads :
          ops[k].got < EIF_SECTION_HEADER_SIZE
             => Len(descs) = ops[k].sec /\ err = "Failed to read section header"
    /\ \A s \in 0 .. Len(descs) - 1 :
          Avail(file, OffsetAt(header, s)) >= EIF_SECTION_HEADER_SIZE

\* The part of C8 that rests on the read lengths alone.
DecodeFollowsFullRead ==
    /\ Decoded => ops[1].got = EIF_HEADER_SIZE
    /\ \A s \in 0 .. Len(descs) - 1 :
          \E k \in SectionHeaderReads :
              ops[k].sec = s /\ ops[k].got = EIF_SECTION_HEADER_SIZE

\* C9: the decoded header holds, for every field, the big-endian value of the
\* bytes at the field's fixed offset, and writing the fields back big-endian
\* in the same order gives the 548 bytes that were read, whatever the magic.
Be16(p) == file[p + 1] * 256 + file[p + 2]
Be32(p) == <<Be16(p), Be16(p + 2)>>
Be64(p) == <<Be16(p), Be16(p + 2), Be16(p + 4), Be16(p + 6)>>

RECURSIVE EncodeU64Array(_)
EncodeU64Array(a) ==
    IF a = <<>> THEN <<>> ELSE U64Bytes(Head(a)) \o EncodeU64Array(Tail(a))

EncodeHeader(h) ==
    h.magic \o U16Bytes(h.version) \o U16Bytes(h.flags)
      \o U64Bytes(h.default_memory) \o U64Bytes(h.default_cpus)
      \o U16Bytes(h.reserved) \o U16Bytes(h.section_cnt)
      \o EncodeU64Array(h.section_offsets) \o EncodeU64Array(h.section_sizes)
      \o U16Bytes(h.unused[1]) \o U16Bytes(h.unused[2])
      \o U16Bytes(h.eif_crc32[1]) \o U16Bytes(h.eif_crc32[2])

C9_HeaderRoundTrip ==
    Decoded =>
        /\ header.magic = <<file[1], file[2], file[3], file[4]>>
        /\ header.version = Be16(4)
        /\ header.flags = Be16(6)
        /\ header.default_memory = Be64(8)
        /\ header.default_cpus = Be64(16)
        /\ header.reserved = Be16(24)
        /\ header.section_cnt = Be16(26)
        /\ Len(header.section_offsets) = MAX_SECTIONS
        /\ Len(header.section_sizes) = MAX_SECTIONS
        /\ \A k \in 0 .. MAX_SECTIONS - 1 :
              /\ header.section_offsets[k + 1] = Be64(28 + 8 * k)
              /\ header.section_sizes[k + 1] = Be64(284 + 8 * k)
        /\ header.unused = Be32(540)
        /\ header.eif_crc32 = Be32(544)
        /\ EncodeHeader(header) = SubSeq(file, 1, EIF_HEADER_SIZE)

C9_Witness ==
    /\ pc = "done"
    /\ header.magic # MagicEif
    /\ header.section_cnt = 2
    /\ header.section_offsets[MAX_SECTIONS] # U64Zero

\* C10: whenever the sentinel has been written, the metadata buffer has
\* section_size + 1 >= 1 bytes and the write went to index section_size
\* inside it.
C10_SentinelInsideBuffer ==
    (metadata # NULL /\ metadata.sentinel)
        => /\ metadata.size # U64Zero
           /\ ~oob
           /\ Len(metadata.data) = ToNat(metadata.size)
           /\ metadata.data[ToNat(metadata.size)] = 0

====
